---- MODULE Spec2Model ----
(***************************************************************************)
(* Model of the Live Multi-Code Aggregator of EpiCheck                      *)
(* (MultiQRScanner.tsx, src/unnamed/part_001).                              *)
(*                                                                          *)
(* React state (overlays, pendingEmails, validatedEmails, isValidating) is  *)
(* held as the value of React's update queue: every setX call of a handler  *)
(* is folded into it at once, which is the value the next render commits.   *)
(* What the handlers READ is the snapshot of the last render: the fields of *)
(* scanStateRef (assigned on every render) and the closure of               *)
(* handleValidate (re-created on every render that changes its deps), both  *)
(* equal to the state as of that render.  Render is a step of its own: a    *)
(* timer callback, a camera event or a press can run between a setX call    *)
(* and the render that commits it.                                          *)
(*                                                                          *)
(* Spec      the component over its first two flush periods                 *)
(* SpecTTL   the component over a horizon longer than the overlay TTL       *)
(* SpecTrace the component over its first flush period, detections logged   *)
(* SpecDirect  the handlers invoked directly, quiet flush ticks counted       *)
(* SpecOutcome the same with two detections, over two flush periods          *)
(* SpecExtract the component fed every shape of decoded string               *)
(* SpecPrune   a session whose dedup map is at its ceiling                   *)
(* SpecGate    detections while inactive or while isValidating is set        *)
(*                                                                          *)
(* The other components are modelled each in a record of its own:           *)
(* SpecQR       QRScanner (src/unnamed/part_000)                            *)
(* SpecMobile   MobileAuthComponent (src/screens/IntraWebViewAuth.tsx)      *)
(* SpecWeb      WebAuthComponent (src/screens/IntraWebViewAuth.tsx)         *)
(* SpecPresence epitechApi.markPresence (src/services/epitechApi.ts)        *)
(***************************************************************************)
EXTENDS Integers, Sequences, FiniteSets, TLC

\* ---------------------------------------------------------------- constants
FLUSH_INTERVAL_MS == 400
OVERLAY_TTL_MS == 2000
DEDUP_WINDOW_MS == 300
DEDUP_MAP_CEILING == 50
\* QRScanner: delay of the timer that resets scanned
SCAN_RESET_MS == 5000

\* ------------------------------------------------------------------- bounds
\* last clock reading explored by Spec (ms)
MaxNow == 800
\* last clock reading explored by SpecTTL (ms)
MaxNowTTL == 2400
\* number of decoded-code events the camera delivers
MaxScans == 2
MaxScansTTL == 2
MaxScansTrace == 3
\* last clock reading explored by SpecTrace (ms)
MaxNowTrace == 400
\* number of onValidate calls recorded
MaxCalls == 2
\* last clock reading explored by SpecDirect (ms)
MaxNowDirect == 2400
\* number of decoded-code events in SpecDirect, and in SpecExtract
MaxScansDirect == 1
MaxScansExtract == 2
\* decoded-code events and last clock reading (ms) in SpecOutcome
MaxScansOutcome == 2
MaxNowOutcome == 800
\* decoded-code events and last clock reading (ms) in SpecGate
MaxScansGate == 2
MaxNowGate == 800
\* SpecPrune: payloads detected before the run, decoded-code events of the
\* run, last clock reading (ms)
FillerCount == 50
MaxScansPrune == 2
MaxNowPrune == 3200
\* SpecQR: onScan deliveries, last clock reading (ms)
MaxDeliveries == 3
MaxNowQR == 10000
\* SpecMobile: WebView messages and navigation-state changes handled
MaxAuthEvents == 3
\* SpecWeb: ticks of the polling interval, presses of Submit
MaxPolls == 2
MaxSubmits == 1
\* SpecPresence: length of the registered-student list
MaxRegistered == 2

\* clock advances between two events (ms), in Spec and in SpecTTL
Deltas == {100, 300}
LongDeltas == {400, 2000}
TraceDeltas == {100, 150}
DirectDeltas == {400}

Emails == {"a@x.eu", "b@x.eu"}

\* result.bounds of a BarcodeScanningResult; NoBounds is a result without it
NoBounds == [present |-> FALSE, x |-> 0, y |-> 0, width |-> 0, height |-> 0]
BoundsInputs ==
    {
      [present |-> TRUE, x |-> 10, y |-> 20, width |-> 30, height |-> 30],
      [present |-> TRUE, x |-> 50, y |-> 60, width |-> 30, height |-> 30] }

TraceBounds == BoundsInputs \cup { NoBounds }

\* result.data: json says whether JSON.parse(data) and the reads of its
\* fields return (an object, a number, a string) or throw (unparsable text,
\* null); email and Email are the two fields read, "" when missing or empty.
\* Here: a raw string, or a JSON object with an email field.
ScanData ==
    [json : {FALSE}, email : {""}, Email : {""}, raw : Emails]
      \cup [json : {TRUE}, email : {"a@x.eu"}, Email : {""}, raw : {"{a}"}]

\* every shape of decoded string: unparsable, and objects with or without a
\* non-empty email and Email field
ExtractData ==
    [json : {FALSE}, email : {""}, Email : {""}, raw : {"a@x.eu", "zz"}]
      \cup [json : {TRUE}, email : {"", "a@x.eu"}, Email : {"", "b@x.eu"},
            raw : {"{}"}]

VARIABLES
    now,              \* Date.now()
    flushDue,         \* time of the next tick of the flush interval
    isActive,         \* the isActive prop
    overlays,         \* useState<QROverlay[]>
    pendingEmails,    \* useState<Set<string>>
    validatedEmails,  \* useState<Set<string>>
    isValidating,     \* useState(false)
    scanStateRef,     \* the state as of the last render (ref and closures)
    detectionBuffer,  \* useRef<Map<string, QROverlay>>
    pendingBuffer,    \* useRef<Set<string>>
    lastSeenMap,      \* useRef<Map<string, number>>
    onValidateCalls,  \* the lists handed to the onValidate prop, in order
    validateUnrendered, \* a Validate has run and no render has followed yet
    cleared,          \* payloads a Clear removed from pending; TRUE once a
                      \* decoded-code event of the payload has followed
    scanLog,          \* the decoded-code events delivered, kept by SpecTrace
    nScans,           \* decoded-code events delivered so far
    validateIgnored,  \* the last handler to run was handleValidate and it
                      \* returned at its guard
    quietTicks,       \* flush ticks in a row that found both buffers empty,
                      \* nothing but clock advances and renders in between
    unprunedMap,      \* the dedup map as it would be if no tick pruned it
    qr,               \* QRScanner: its state, its timers and its history
    mobile,           \* MobileAuthComponent: its ref, its timers and promises
    web,              \* WebAuthComponent: its state, its polls and timers
    mp                \* epitechApi.markPresence: its last call, its outcome

vars == << now, flushDue, isActive, overlays, pendingEmails, validatedEmails,
           isValidating, scanStateRef, detectionBuffer, pendingBuffer,
           lastSeenMap, onValidateCalls, validateUnrendered, cleared,
           scanLog, nScans, validateIgnored, quietTicks, unprunedMap,
           qr, mobile, web, mp >>

\* the history variables that only observe the component
ghosts == << cleared, scanLog >>

\* the history variables kept by SpecDirect only
probes == << validateIgnored, quietTicks >>

\* the variables of the later specifications, at rest in the earlier ones
aside == << unprunedMap, qr, mobile, web, mp >>

\* the variables of the aggregator
aggregator == << now, flushDue, isActive, overlays, pendingEmails,
                 validatedEmails, isValidating, scanStateRef, detectionBuffer,
                 pendingBuffer, lastSeenMap, onValidateCalls,
                 validateUnrendered, cleared, scanLog, nScans,
                 validateIgnored, quietTicks, unprunedMap >>

\* ------------------------------------------------------------------ helpers
EmptyMap == [x \in {} |-> x]

Range(s) == { s[i] : i \in DOMAIN s }

MapSet(m, k, v) == [ x \in (DOMAIN m) \cup {k} |-> IF x = k THEN v ELSE m[x] ]

\* Array.from(set): the members of the set, each once
RECURSIVE ArrayFrom(_)
ArrayFrom(S) ==
    IF S = {} THEN << >>
    ELSE LET e == CHOOSE x \in S : TRUE
         IN  << e >> \o ArrayFrom(S \ {e})

\* mutant: the Email field is not looked at
ExtractEmailLowerOnly(data) ==
    IF data.json
    THEN IF data.email # "" THEN data.email ELSE data.raw
    ELSE data.raw

\* JSON.parse(data); parsed.email || parsed.Email || data, raw data on a throw
ExtractEmail(data) ==
    IF data.json
    THEN IF data.email # "" THEN data.email
         ELSE IF data.Email # "" THEN data.Email
         ELSE data.raw
    ELSE data.raw

\* mutant: the dedup check never suppresses
SuppressedNever(map, email, t) == FALSE

\* const prev = lastSeenMap.get(email); prev && now - prev < DEDUP_WINDOW_MS
Suppressed(map, email, t) ==
    /\ email \in DOMAIN map
    /\ map[email] # 0
    /\ t - map[email] < DEDUP_WINDOW_MS

\* the bounds object built from result.bounds, missing fields as 0
ComputeBounds(b) ==
    IF b.present
    THEN [x |-> b.x, y |-> b.y, width |-> b.width, height |-> b.height]
    ELSE [x |-> 0, y |-> 0, width |-> 0, height |-> 0]

MakeOverlay(email, b, t, processed) ==
    [id |-> email, text |-> email, bounds |-> ComputeBounds(b),
     lastSeen |-> t, processed |-> processed]

\* ------------------------------------------------------------------- render
RenderedState ==
    [isActive |-> isActive, isValidating |-> isValidating,
     validatedEmails |-> validatedEmails, pendingEmails |-> pendingEmails]

\* QRScanner as mounted: useState(false), the isActive prop true, no timer
QRInit ==
    [isActive |-> TRUE, scanned |-> FALSE, rendered |-> FALSE, timers |-> {},
     now |-> 0, onScanCount |-> 0, fired |-> {}, reactivated |-> FALSE]

\* the other components of the application as mounted
\* MobileAuthComponent as mounted: useRef(false), nothing scheduled
MobileInit ==
    [hasCalledSuccessRef |-> FALSE, onSuccessCalls |-> << >>,
     currentUrl |-> "", injectTimers |-> 0, nativeTimers |-> 0,
     nativeFromMessage |-> 0, nativeFromNavigation |-> 0,
     manualTimers |-> 0, showManualOption |-> FALSE, events |-> 0]

\* WebAuthComponent as mounted: status idle, no interval, no popup
WebInit ==
    [status |-> "idle", checkIntervalRef |-> FALSE, popupRef |-> FALSE,
     popupClosed |-> FALSE, starting |-> FALSE, authenticated |-> FALSE,
     pollsInFlight |-> 0, polls |-> 0, manualInFlight |-> 0, submits |-> 0,
     successTimers |-> 0, scheduled |-> 0, onSuccessCalls |-> 0]

\* markPresence not called yet
PresenceInit == [done |-> FALSE]

AsideInit ==
    /\ qr = QRInit
    /\ mobile = MobileInit
    /\ web = WebInit
    /\ mp = PresenceInit

Init ==
    /\ now = 0
    /\ flushDue = FLUSH_INTERVAL_MS
    /\ isActive = TRUE
    /\ overlays = {}
    /\ pendingEmails = {}
    /\ validatedEmails = {}
    /\ isValidating = FALSE
    /\ scanStateRef = [isActive |-> TRUE, isValidating |-> FALSE,
                       validatedEmails |-> {}, pendingEmails |-> {}]
    /\ detectionBuffer = EmptyMap
    /\ pendingBuffer = {}
    /\ lastSeenMap = EmptyMap
    /\ onValidateCalls = << >>
    /\ validateUnrendered = FALSE
    /\ cleared = EmptyMap
    /\ scanLog = << >>
    /\ nScans = 0
    /\ validateIgnored = FALSE
    /\ quietTicks = 0
    /\ unprunedMap = EmptyMap
    /\ AsideInit

\* A render of the component: the queued state updates are committed and the
\* ref (and the handlers' closures) are brought up to date.
Render ==
    /\ scanStateRef # RenderedState \/ validateUnrendered
    /\ scanStateRef' = RenderedState
    /\ validateUnrendered' = FALSE
    /\ UNCHANGED << now, flushDue, isActive, overlays, pendingEmails,
                    validatedEmails, isValidating, detectionBuffer,
                    pendingBuffer, lastSeenMap, onValidateCalls, nScans,
                    ghosts >>

\* ------------------------------------------------------------ scan callback
\* mutant: the callback does not look at the validated set
ProcessDetectionUnchecked(email, b) ==
    /\ lastSeenMap' = MapSet(lastSeenMap, email, now)
    /\ detectionBuffer' =
          MapSet(detectionBuffer, email, MakeOverlay(email, b, now, FALSE))
    /\ pendingBuffer' =
          IF email \notin scanStateRef.pendingEmails
          THEN pendingBuffer \cup {email}
          ELSE pendingBuffer

\* mutant: only the first sighting of a payload is buffered as pending
ProcessDetectionFirstSighting(email, b) ==
    LET isAlreadyValidated == email \in scanStateRef.validatedEmails
    IN  /\ lastSeenMap' = MapSet(lastSeenMap, email, now)
        /\ detectionBuffer' =
              MapSet(detectionBuffer, email,
                     MakeOverlay(email, b, now, isAlreadyValidated))
        /\ pendingBuffer' =
              IF ~isAlreadyValidated /\ email \notin DOMAIN lastSeenMap
              THEN pendingBuffer \cup {email}
              ELSE pendingBuffer

\* handleBarCodeScanned, from the dedup check on: the detection passed the
\* isActive / isValidating gate and was not suppressed.
ProcessDetection(email, b) ==
    LET isAlreadyValidated == email \in scanStateRef.validatedEmails
    IN  /\ lastSeenMap' = MapSet(lastSeenMap, email, now)
        /\ detectionBuffer' =
              MapSet(detectionBuffer, email,
                     MakeOverlay(email, b, now, isAlreadyValidated))
        /\ pendingBuffer' =
              IF ~isAlreadyValidated /\ email \notin scanStateRef.pendingEmails
              THEN pendingBuffer \cup {email}
              ELSE pendingBuffer

\* the early returns of handleBarCodeScanned
ScanGateClosed == ~scanStateRef.isActive \/ scanStateRef.isValidating

\* mutant: the callback puts a new payload in the Pending Set itself
HandleBarCodeScannedDirect(data, b) ==
    /\ nScans' = nScans + 1
    /\ LET email == ExtractEmail(data)
       IN  IF ScanGateClosed \/ Suppressed(lastSeenMap, email, now)
           THEN UNCHANGED << lastSeenMap, detectionBuffer, pendingBuffer,
                             pendingEmails >>
           ELSE /\ ProcessDetection(email, b)
                /\ pendingEmails' =
                      IF email \in scanStateRef.validatedEmails
                      THEN pendingEmails
                      ELSE pendingEmails \cup {email}
    /\ UNCHANGED << now, flushDue, isActive, overlays,
                    validatedEmails, isValidating, scanStateRef,
                    onValidateCalls, validateUnrendered >>

\* mutant: the dedup timestamp is written before the gate is looked at
HandleBarCodeScannedStamped(data, b) ==
    /\ nScans' = nScans + 1
    /\ LET email == ExtractEmail(data)
       IN  IF ScanGateClosed
           THEN /\ lastSeenMap' = MapSet(lastSeenMap, email, now)
                /\ UNCHANGED << detectionBuffer, pendingBuffer >>
           ELSE IF Suppressed(lastSeenMap, email, now)
           THEN UNCHANGED << lastSeenMap, detectionBuffer, pendingBuffer >>
           ELSE ProcessDetection(email, b)
    /\ UNCHANGED << now, flushDue, isActive, overlays, pendingEmails,
                    validatedEmails, isValidating, scanStateRef,
                    onValidateCalls, validateUnrendered >>

HandleBarCodeScanned(data, b) ==
    /\ nScans' = nScans + 1
    /\ LET email == ExtractEmail(data)
       IN  IF ScanGateClosed \/ Suppressed(lastSeenMap, email, now)
           THEN UNCHANGED << lastSeenMap, detectionBuffer, pendingBuffer >>
           ELSE ProcessDetection(email, b)
    /\ UNCHANGED << now, flushDue, isActive, overlays, pendingEmails,
                    validatedEmails, isValidating, scanStateRef,
                    onValidateCalls, validateUnrendered >>

\* --------------------------------------------------------------- flush tick
\* mutant: the snapshot is appended, overlays of the same payload are kept
MergeOverlaysKeepOld(prev, snapshot, cutoff) ==
    { o \in prev : o.lastSeen > cutoff }
        \cup { snapshot[k] : k \in DOMAIN snapshot }

\* setOverlays updater of the non-empty-buffer branch
MergeOverlays(prev, snapshot, cutoff) ==
    { o \in prev : o.lastSeen > cutoff /\ o.id \notin DOMAIN snapshot }
        \cup { snapshot[k] : k \in DOMAIN snapshot }

\* mutant: the empty-buffer branch keeps every overlay
FilterStaleKeepsAll(prev, cutoff) == prev

\* mutant: the tick stamps the overlays it keeps with its own time
FilterStaleRestamps(prev, cutoff) ==
    { [o EXCEPT !.lastSeen = cutoff + OVERLAY_TTL_MS] :
        o \in { x \in prev : x.lastSeen > cutoff } }

\* setOverlays updater of the empty-buffer branch
FilterStale(prev, cutoff) == { o \in prev : o.lastSeen > cutoff }

\* mutant: the flush drops the pending buffer without merging it
UnionPendingLost(prev, newEmails) == prev

\* setPendingEmails updater of the flush
UnionPending(prev, newEmails) == prev \cup newEmails

\* mutant: old entries are removed whatever the size of the map
PruneDedupAlways(map, cutoff) ==
    [ k \in { x \in DOMAIN map : ~(map[x] < cutoff) } |-> map[k] ]

\* mutant: above the ceiling the map is emptied
PruneDedupAll(map, cutoff) ==
    IF Cardinality(DOMAIN map) > DEDUP_MAP_CEILING
    THEN EmptyMap
    ELSE map

\* step 3 of the tick: dedup map cleanup
PruneDedup(map, cutoff) ==
    IF Cardinality(DOMAIN map) > DEDUP_MAP_CEILING
    THEN [ k \in { x \in DOMAIN map : ~(map[x] < cutoff) } |-> map[k] ]
    ELSE map

Flush ==
    /\ now >= flushDue
    /\ flushDue' = now + FLUSH_INTERVAL_MS
    /\ LET cutoff == now - OVERLAY_TTL_MS
       IN  /\ overlays' =
                 IF DOMAIN detectionBuffer # {}
                 THEN MergeOverlays(overlays, detectionBuffer, cutoff)
                 ELSE FilterStale(overlays, cutoff)
           /\ detectionBuffer' = EmptyMap
           /\ pendingEmails' =
                 IF pendingBuffer # {}
                 THEN UnionPending(pendingEmails, pendingBuffer)
                 ELSE pendingEmails
           /\ pendingBuffer' = {}
           /\ lastSeenMap' = PruneDedup(lastSeenMap, cutoff)
    /\ UNCHANGED << now, isActive, validatedEmails, isValidating,
                    scanStateRef, onValidateCalls, validateUnrendered,
                    nScans, ghosts >>

\* ------------------------------------------------------------ user triggers
\* mutant: handleValidate leaves the overlays as they are
MarkProcessedSkipped(prev, pending) == prev

\* setOverlays updater of handleValidate
MarkProcessed(prev, pending) ==
    { [o EXCEPT !.processed = (o.id \in pending) \/ o.processed] : o \in prev }

\* value of isValidating when handleValidate returns
ValidatingAfterValidate == FALSE

\* mutant: the guard does not look at the pending set
ValidateGuardFlagOnly == ~scanStateRef.isValidating

\* the guard of handleValidate, on the values its closure captured
ValidateGuard ==
    ~(scanStateRef.pendingEmails = {} \/ scanStateRef.isValidating)

\* The Validate and Clear buttons are rendered only while the component is
\* active and shows a non-empty pending set.
ButtonsShown == scanStateRef.isActive /\ scanStateRef.pendingEmails # {}

\* handleValidate past its guard, onValidate returning (a promise or nothing)
ValidateEffect ==
    LET emails == ArrayFrom(scanStateRef.pendingEmails)
    IN  /\ validatedEmails' = validatedEmails \cup Range(emails)
        /\ overlays' = MarkProcessed(overlays, scanStateRef.pendingEmails)
        /\ pendingEmails' = {}
        /\ onValidateCalls' = Append(onValidateCalls, emails)
        /\ isValidating' = ValidatingAfterValidate

\* handleValidate past its guard, onValidate throwing: line 359 is not run
ValidateThrown ==
    LET emails == ArrayFrom(scanStateRef.pendingEmails)
    IN  /\ validatedEmails' = validatedEmails \cup Range(emails)
        /\ overlays' = MarkProcessed(overlays, scanStateRef.pendingEmails)
        /\ pendingEmails' = {}
        /\ onValidateCalls' = Append(onValidateCalls, emails)
        /\ isValidating' = TRUE

\* a press of the Validate button
HandleValidate ==
    /\ ButtonsShown
    /\ ValidateGuard
    /\ Len(onValidateCalls) < MaxCalls
    /\ ValidateEffect
    /\ validateUnrendered' = TRUE
    /\ UNCHANGED << now, flushDue, isActive, scanStateRef, detectionBuffer,
                    pendingBuffer, lastSeenMap, nScans, ghosts >>

\* mutant: Clear also empties the pending buffer
HandleClearPendingAndBuffer ==
    /\ ButtonsShown
    /\ pendingEmails' = {}
    /\ pendingBuffer' = {}
    /\ cleared' = [ e \in (DOMAIN cleared) \cup pendingEmails |->
                      IF e \in pendingEmails THEN FALSE ELSE cleared[e] ]
    /\ UNCHANGED << now, flushDue, isActive, overlays, validatedEmails,
                    isValidating, scanStateRef, detectionBuffer,
                    lastSeenMap, onValidateCalls, validateUnrendered,
                    scanLog, nScans >>

\* mutant: Clear also forgets what was validated
HandleClearEverything ==
    /\ ButtonsShown
    /\ pendingEmails' = {}
    /\ validatedEmails' = {}
    /\ cleared' = [ e \in (DOMAIN cleared) \cup pendingEmails |->
                      IF e \in pendingEmails THEN FALSE ELSE cleared[e] ]
    /\ UNCHANGED << now, flushDue, isActive, overlays, isValidating,
                    scanStateRef, detectionBuffer, pendingBuffer,
                    lastSeenMap, onValidateCalls, validateUnrendered,
                    scanLog, nScans >>

HandleClearPending ==
    /\ ButtonsShown
    /\ pendingEmails' = {}
    /\ cleared' = [ e \in (DOMAIN cleared) \cup pendingEmails |->
                      IF e \in pendingEmails THEN FALSE ELSE cleared[e] ]
    /\ UNCHANGED << now, flushDue, isActive, overlays, validatedEmails,
                    isValidating, scanStateRef, detectionBuffer,
                    pendingBuffer, lastSeenMap, onValidateCalls,
                    validateUnrendered, scanLog, nScans >>

\* The parent re-renders the component with a new isActive prop.
SetIsActive(b) ==
    /\ b # isActive
    /\ isActive' = b
    /\ scanStateRef' = [RenderedState EXCEPT !.isActive = b]
    /\ validateUnrendered' = FALSE
    /\ UNCHANGED << now, flushDue, overlays, pendingEmails, validatedEmails,
                    isValidating, detectionBuffer, pendingBuffer, lastSeenMap,
                    onValidateCalls, nScans, ghosts >>

\* ---------------------------------------------------------------- the clock
Advance(d, horizon) ==
    /\ now + d <= horizon
    /\ now' = now + d
    /\ UNCHANGED << flushDue, isActive, overlays, pendingEmails,
                    validatedEmails, isValidating, scanStateRef,
                    detectionBuffer, pendingBuffer, lastSeenMap,
                    onValidateCalls, validateUnrendered, nScans, ghosts >>

\* the event is noted for the payloads cleared before it
NoteScan(email) ==
    cleared' = [ e \in DOMAIN cleared |-> cleared[e] \/ e = email ]

\* a decoded-code event of the camera, not logged
Scan(data, b, cap) ==
    /\ nScans < cap
    /\ HandleBarCodeScanned(data, b)
    /\ NoteScan(ExtractEmail(data))
    /\ UNCHANGED scanLog

\* a decoded-code event of the camera, logged with its time and its input
LoggedScan(data, b, cap) ==
    /\ nScans < cap
    /\ HandleBarCodeScanned(data, b)
    /\ NoteScan(ExtractEmail(data))
    /\ scanLog' = Append(scanLog,
                         [t |-> now, email |-> ExtractEmail(data),
                          bounds |-> ComputeBounds(b)])

Next ==
    \/ \E data \in ScanData, b \in BoundsInputs :
          /\ Scan(data, b, MaxScans)
          /\ UNCHANGED << probes, aside >>
    \/ Flush
          /\ UNCHANGED << probes, aside >>
    \/ Render
          /\ UNCHANGED << probes, aside >>
    \/ HandleValidate
          /\ UNCHANGED << probes, aside >>
    \/ HandleClearPending
          /\ UNCHANGED << probes, aside >>
    \/ \E b \in BOOLEAN : SetIsActive(b)
          /\ UNCHANGED << probes, aside >>
    \/ \E d \in Deltas : Advance(d, MaxNow)
          /\ UNCHANGED << probes, aside >>

Spec == Init /\ [][Next]_vars

\* The same component over a horizon longer than the overlay TTL.
NextTTL ==
    \/ \E data \in ScanData, b \in BoundsInputs :
          /\ Scan(data, b, MaxScansTTL)
          /\ UNCHANGED << probes, aside >>
    \/ Flush
          /\ UNCHANGED << probes, aside >>
    \/ Render
          /\ UNCHANGED << probes, aside >>
    \/ HandleValidate
          /\ UNCHANGED << probes, aside >>
    \/ HandleClearPending
          /\ UNCHANGED << probes, aside >>
    \/ \E b \in BOOLEAN : SetIsActive(b)
          /\ UNCHANGED << probes, aside >>
    \/ \E d \in LongDeltas : Advance(d, MaxNowTTL)
          /\ UNCHANGED << probes, aside >>

SpecTTL == Init /\ [][NextTTL]_vars

\* The active component over its first flush period, every detection logged.
NextTrace ==
    \/ \E data \in ScanData, b \in TraceBounds :
          /\ LoggedScan(data, b, MaxScansTrace)
          /\ UNCHANGED << probes, aside >>
    \/ Flush
          /\ UNCHANGED << probes, aside >>
    \/ Render
          /\ UNCHANGED << probes, aside >>
    \/ HandleValidate
          /\ UNCHANGED << probes, aside >>
    \/ HandleClearPending
          /\ UNCHANGED << probes, aside >>
    \/ \E d \in TraceDeltas : Advance(d, MaxNowTrace)
          /\ UNCHANGED << probes, aside >>

SpecTrace == Init /\ [][NextTrace]_vars

\* --------------------------------------------- the handlers invoked directly
\* what onValidate(emails) does in handleValidate
Outcomes == {"returns", "throws"}

\* handleValidate called whether or not its button is shown or enabled
CallHandleValidate(outcome) ==
    /\ ValidateGuard => Len(onValidateCalls) < MaxCalls
    /\ IF ValidateGuard
       THEN /\ IF outcome = "throws" THEN ValidateThrown ELSE ValidateEffect
            /\ validateUnrendered' = TRUE
            /\ validateIgnored' = FALSE
       ELSE /\ validateIgnored' = TRUE
            /\ UNCHANGED << validatedEmails, overlays, pendingEmails,
                            onValidateCalls, isValidating,
                            validateUnrendered >>
    /\ quietTicks' = 0
    /\ UNCHANGED << now, flushDue, isActive, scanStateRef, detectionBuffer,
                    pendingBuffer, lastSeenMap, nScans, ghosts, aside >>

\* a tick of the flush interval, counted when it found both buffers empty
CountedFlush ==
    /\ Flush
    /\ quietTicks' =
          IF DOMAIN detectionBuffer = {} /\ pendingBuffer = {}
          THEN IF quietTicks < 2 THEN quietTicks + 1 ELSE 2
          ELSE 0
    /\ validateIgnored' = FALSE
    /\ UNCHANGED aside

DirectStep(cap, horizon) ==
    \/ \E data \in ScanData, b \in BoundsInputs :
          /\ Scan(data, b, cap)
          /\ quietTicks' = 0
          /\ validateIgnored' = FALSE
          /\ UNCHANGED aside
    \/ CountedFlush
    \/ Render
          /\ UNCHANGED << probes, aside >>
    \/ \E outcome \in Outcomes : CallHandleValidate(outcome)
    \/ HandleClearPending
          /\ quietTicks' = 0
          /\ validateIgnored' = FALSE
          /\ UNCHANGED aside
    \/ \E d \in DirectDeltas : Advance(d, horizon)
          /\ UNCHANGED << probes, aside >>

\* one detection, over a horizon longer than the overlay TTL
NextDirect == DirectStep(MaxScansDirect, MaxNowDirect)

SpecDirect == Init /\ [][NextDirect]_vars

\* two detections, over the first two flush periods
NextOutcome == DirectStep(MaxScansOutcome, MaxNowOutcome)

SpecOutcome == Init /\ [][NextOutcome]_vars

\* ------------------------------------- every shape of decoded string scanned
NextExtract ==
    \/ \E data \in ExtractData, b \in BoundsInputs :
          /\ Scan(data, b, MaxScansExtract)
          /\ UNCHANGED << probes, aside >>
    \/ Flush
          /\ UNCHANGED << probes, aside >>
    \/ Render
          /\ UNCHANGED << probes, aside >>
    \/ HandleValidate
          /\ UNCHANGED << probes, aside >>
    \/ HandleClearPending
          /\ UNCHANGED << probes, aside >>
    \/ \E d \in TraceDeltas : Advance(d, MaxNowTrace)
          /\ UNCHANGED << probes, aside >>

SpecExtract == Init /\ [][NextExtract]_vars

\* ------------------------------------- a session with a full dedup map
\* The payloads detected earlier in the session, each once, at FillerTime;
\* they were flushed into the Pending Set and cleared from it, and their
\* overlays have expired by StartPrune, the time of the last flush tick.
Fillers == { "f" \o ToString(i) : i \in 1..FillerCount }
FillerTime == 100
StartPrune == 2400

InitPrune ==
    /\ now = StartPrune
    /\ flushDue = StartPrune + FLUSH_INTERVAL_MS
    /\ isActive = TRUE
    /\ overlays = {}
    /\ pendingEmails = {}
    /\ validatedEmails = {}
    /\ isValidating = FALSE
    /\ scanStateRef = [isActive |-> TRUE, isValidating |-> FALSE,
                       validatedEmails |-> {}, pendingEmails |-> {}]
    /\ detectionBuffer = EmptyMap
    /\ pendingBuffer = {}
    /\ lastSeenMap = [ f \in Fillers |-> FillerTime ]
    /\ onValidateCalls = << >>
    /\ validateUnrendered = FALSE
    /\ cleared = [ f \in Fillers |-> FALSE ]
    /\ scanLog = << >>
    /\ nScans = FillerCount
    /\ validateIgnored = FALSE
    /\ quietTicks = 0
    /\ unprunedMap = [ f \in Fillers |-> FillerTime ]
    /\ AsideInit

\* a decoded-code event, the never-pruned map following its own decisions
ShadowScan(data, b, cap) ==
    /\ Scan(data, b, cap)
    /\ unprunedMap' =
          LET email == ExtractEmail(data)
          IN  IF ScanGateClosed \/ Suppressed(unprunedMap, email, now)
              THEN unprunedMap
              ELSE MapSet(unprunedMap, email, now)

NextPrune ==
    \/ \E data \in ScanData :
          /\ ShadowScan(data, NoBounds, FillerCount + MaxScansPrune)
          /\ UNCHANGED << probes, qr, mobile, web, mp >>
    \/ Flush
          /\ UNCHANGED << probes, aside >>
    \/ Render
          /\ UNCHANGED << probes, aside >>
    \/ HandleValidate
          /\ UNCHANGED << probes, aside >>
    \/ HandleClearPending
          /\ UNCHANGED << probes, aside >>
    \/ \E d \in Deltas : Advance(d, MaxNowPrune)
          /\ UNCHANGED << probes, aside >>

SpecPrune == InitPrune /\ [][NextPrune]_vars

\* ------------------- detections while inactive or while validation is set
NextGate ==
    \/ \E data \in ScanData, b \in BoundsInputs :
          /\ LoggedScan(data, b, MaxScansGate)
          /\ UNCHANGED << probes, aside >>
    \/ Flush
          /\ UNCHANGED << probes, aside >>
    \/ Render
          /\ UNCHANGED << probes, aside >>
    \/ \E outcome \in Outcomes : CallHandleValidate(outcome)
    \/ HandleClearPending
          /\ UNCHANGED << probes, aside >>
    \/ \E b \in BOOLEAN : SetIsActive(b)
          /\ UNCHANGED << probes, aside >>
    \/ \E d \in DirectDeltas : Advance(d, MaxNowGate)
          /\ UNCHANGED << probes, aside >>

SpecGate == Init /\ [][NextGate]_vars

\* ------------------------------------------- QRScanner (src/unnamed/part_000)
\* qr.scanned is the queued value of the scanned state, qr.rendered the value
\* as of the last render, which is what the closure of handleBarCodeScanned
\* reads; qr.isActive is the prop of the last render.  qr.timers holds the
\* pending reset timers, one per delivery, qr.fired the deliveries whose timer
\* has run, qr.reactivated whether isActive went from false to true since the
\* last delivery.
QRDeltas == {1000, 4000}

\* handleBarCodeScanned, past its guard (scanned || !isActive returns)
QRHandleBarCodeScanned ==
    /\ qr.onScanCount < MaxDeliveries
    /\ ~(qr.rendered \/ ~qr.isActive)
    /\ qr' = [qr EXCEPT
                 !.scanned = TRUE,
                 !.onScanCount = @ + 1,
                 !.timers = @ \cup {[id |-> qr.onScanCount + 1,
                                     due |-> qr.now + SCAN_RESET_MS]},
                 !.reactivated = FALSE]
    /\ UNCHANGED << aggregator, mobile, web, mp >>

\* the callback of a reset timer: setScanned(false)
QRTimerFires ==
    /\ \E tm \in qr.timers :
          /\ tm.due <= qr.now
          /\ qr' = [qr EXCEPT !.scanned = FALSE,
                              !.timers = @ \ {tm},
                              !.fired = @ \cup {tm.id}]
    /\ UNCHANGED << aggregator, mobile, web, mp >>

\* a render that commits the queued value of scanned
QRRender ==
    /\ qr.rendered # qr.scanned
    /\ qr' = [qr EXCEPT !.rendered = qr.scanned]
    /\ UNCHANGED << aggregator, mobile, web, mp >>

\* the parent renders the scanner with another isActive; the effect on
\* [isActive] runs after the commit and queues setScanned(false) on activation
QRSetIsActive(b) ==
    /\ b # qr.isActive
    /\ qr' = [qr EXCEPT !.isActive = b,
                        !.rendered = qr.scanned,
                        !.scanned = IF b THEN FALSE ELSE @,
                        !.reactivated = IF b THEN TRUE ELSE @]
    /\ UNCHANGED << aggregator, mobile, web, mp >>

QRAdvance(d) ==
    /\ qr.now + d <= MaxNowQR
    /\ qr' = [qr EXCEPT !.now = @ + d]
    /\ UNCHANGED << aggregator, mobile, web, mp >>

NextQR ==
    \/ QRHandleBarCodeScanned
    \/ QRTimerFires
    \/ QRRender
    \/ \E b \in BOOLEAN : QRSetIsActive(b)
    \/ \E d \in QRDeltas : QRAdvance(d)

SpecQR == Init /\ [][NextQR]_vars

\* ------------------ MobileAuthComponent (src/screens/IntraWebViewAuth.tsx)
\* A cookie string is the sequence of its name=value pairs; a message is a
\* plain cookie string, or a JSON object with or without a cookie field.
CookieStrings ==
    { << >>,
      << [name |-> "user", value |-> "abc"] >>,
      << [name |-> "a", value |-> "1"] >>,
      << [name |-> "a", value |-> "1"], [name |-> "user", value |-> "abc"] >> }

MessageData ==
    [json : {FALSE}, hasCookie : {FALSE}, cookies : CookieStrings]
    \cup [json : {TRUE}, hasCookie : {TRUE}, cookies : CookieStrings]
    \cup [json : {TRUE}, hasCookie : {FALSE}, cookies : {<< >>}]

\* navState.url: whether it starts with INTRA_URL, whether it includes
\* "/auth/office365"
NavUrls == [intra : BOOLEAN, office365 : BOOLEAN]

\* what the native cookie store yields: the user cookie, or "" for null
NativeCookies == {"", "abc"}

\* parseCookieString: the value of the first pair named user, "" for null
RECURSIVE ParseCookieString(_)
ParseCookieString(c) ==
    IF c = << >> THEN ""
    ELSE IF Head(c).name = "user" THEN Head(c).value
    ELSE ParseCookieString(Tail(c))

\* the pairs parseCookieString finds in the raw text of a message: for
\* JSON text {"cookie":"n1=v1; n2=v2"} the first name carries what precedes
\* it and the last value what follows it
RawCookies(data) ==
    IF ~data.json THEN data.cookies
    ELSE IF ~data.hasCookie THEN << [name |-> "{\"x\":1}", value |-> ""] >>
    ELSE IF data.cookies = << >>
    THEN << [name |-> "{\"cookie\":\"\"}", value |-> ""] >>
    ELSE [ i \in DOMAIN data.cookies |->
             [name |-> IF i = 1
                       THEN "{\"cookie\":\"" \o data.cookies[i].name
                       ELSE data.cookies[i].name,
              value |-> IF i = Len(data.cookies)
                        THEN data.cookies[i].value \o "\"}"
                        ELSE data.cookies[i].value] ]

\* handleWebMessage; outcome is what the onSuccess prop does when called
HandleWebMessage(data, outcome) ==
    /\ mobile.events < MaxAuthEvents
    /\ LET fromJson == IF data.json /\ data.hasCookie
                       THEN ParseCookieString(data.cookies) ELSE ""
           raw == ParseCookieString(RawCookies(data))
           counted == [mobile EXCEPT !.events = @ + 1]
           called(m, cookie) ==
               [m EXCEPT !.hasCalledSuccessRef = TRUE,
                         !.onSuccessCalls = Append(@, cookie)]
           \* from the second parseCookieString on
           plain(m) ==
               IF raw # "" THEN called(m, raw)
               ELSE [m EXCEPT !.nativeFromMessage = @ + 1]
       IN  mobile' =
             IF mobile.hasCalledSuccessRef THEN counted
             ELSE IF fromJson # ""
             THEN IF outcome = "returns"
                  THEN called(counted, fromJson)
                  ELSE plain(called(counted, fromJson))
             ELSE plain(counted)
    /\ UNCHANGED << aggregator, qr, web, mp >>

\* handleNavigationStateChange: two timers on an intranet page
HandleNavigationStateChange(url) ==
    /\ mobile.events < MaxAuthEvents
    /\ mobile' =
          IF url.intra /\ ~url.office365
          THEN [mobile EXCEPT !.events = @ + 1,
                              !.currentUrl = "intra",
                              !.injectTimers = @ + 1,
                              !.nativeTimers = @ + 1]
          ELSE [mobile EXCEPT !.events = @ + 1,
                              !.currentUrl = IF url.intra THEN "office365"
                                             ELSE "other"]
    /\ UNCHANGED << aggregator, qr, web, mp >>

\* the 1000 ms timer: injectJavaScript, the page posts document.cookie later
InjectTimerFires ==
    /\ mobile.injectTimers > 0
    /\ mobile' = [mobile EXCEPT !.injectTimers = @ - 1]
    /\ UNCHANGED << aggregator, qr, web, mp >>

\* the 2000 ms timer: native extraction unless success was already called
NativeTimerFires ==
    /\ mobile.nativeTimers > 0
    /\ mobile' =
          IF mobile.hasCalledSuccessRef
          THEN [mobile EXCEPT !.nativeTimers = @ - 1]
          ELSE [mobile EXCEPT !.nativeTimers = @ - 1,
                              !.nativeFromNavigation = @ + 1]
    /\ UNCHANGED << aggregator, qr, web, mp >>

\* the then-callback of tryNativeCookieExtraction() in handleWebMessage
NativeResolvesForMessage(nativeCookie) ==
    /\ mobile.nativeFromMessage > 0
    /\ mobile' =
          IF nativeCookie # "" /\ ~mobile.hasCalledSuccessRef
          THEN [mobile EXCEPT !.nativeFromMessage = @ - 1,
                              !.hasCalledSuccessRef = TRUE,
                              !.onSuccessCalls = Append(@, nativeCookie)]
          ELSE IF nativeCookie = ""
          THEN [mobile EXCEPT !.nativeFromMessage = @ - 1,
                              !.manualTimers = @ + 1]
          ELSE [mobile EXCEPT !.nativeFromMessage = @ - 1]
    /\ UNCHANGED << aggregator, qr, web, mp >>

\* the then-callback in the 2000 ms timer of handleNavigationStateChange
NativeResolvesForNavigation(nativeCookie) ==
    /\ mobile.nativeFromNavigation > 0
    /\ mobile' =
          IF nativeCookie # "" /\ ~mobile.hasCalledSuccessRef
          THEN [mobile EXCEPT !.nativeFromNavigation = @ - 1,
                              !.hasCalledSuccessRef = TRUE,
                              !.onSuccessCalls = Append(@, nativeCookie)]
          ELSE [mobile EXCEPT !.nativeFromNavigation = @ - 1]
    /\ UNCHANGED << aggregator, qr, web, mp >>

\* the 1000 ms timer that shows the manual option
ManualTimerFires ==
    /\ mobile.manualTimers > 0
    /\ mobile' = [mobile EXCEPT !.manualTimers = @ - 1,
                                !.showManualOption = TRUE]
    /\ UNCHANGED << aggregator, qr, web, mp >>

NextMobile ==
    \/ \E data \in MessageData, outcome \in Outcomes :
          HandleWebMessage(data, outcome)
    \/ \E url \in NavUrls : HandleNavigationStateChange(url)
    \/ InjectTimerFires
    \/ NativeTimerFires
    \/ \E c \in NativeCookies : NativeResolvesForMessage(c)
    \/ \E c \in NativeCookies : NativeResolvesForNavigation(c)
    \/ ManualTimerFires

SpecMobile == Init /\ [][NextMobile]_vars

\* --------------------- WebAuthComponent (src/screens/IntraWebViewAuth.tsx)
\* web.checkIntervalRef and web.popupRef say whether the ref is set;
\* web.authenticated is what the backend answers for the session;
\* web.scheduled counts the setTimeout(onSuccess) calls of the flow.
\* startAuthFlow up to its fetch: no session id is an error at once
StartAuthFlow(hasSid) ==
    /\ web.status = "idle"
    /\ web' = IF hasSid
              THEN [web EXCEPT !.status = "opening", !.starting = TRUE]
              ELSE [web EXCEPT !.status = "error"]
    /\ UNCHANGED << aggregator, qr, mobile, mp >>

\* startAuthFlow after its fetch: the popup opens and the interval is set,
\* or the popup is blocked, or the fetch failed
StartResolves(result) ==
    /\ web.starting
    /\ web' = IF result = "popup"
              THEN [web EXCEPT !.starting = FALSE, !.popupRef = TRUE,
                               !.popupClosed = FALSE, !.status = "waiting",
                               !.checkIntervalRef = TRUE]
              ELSE [web EXCEPT !.starting = FALSE, !.status = "error"]
    /\ UNCHANGED << aggregator, qr, mobile, mp >>

\* handleRetry: setStatus("idle"), then startAuthFlow
HandleRetry(hasSid) ==
    /\ web.status = "error"
    /\ web' = IF hasSid
              THEN [web EXCEPT !.status = "opening", !.starting = TRUE]
              ELSE [web EXCEPT !.status = "error"]
    /\ web' # web
    /\ UNCHANGED << aggregator, qr, mobile, mp >>

\* the user signs in in the popup: the backend session is authenticated
Authenticate ==
    /\ web.popupRef /\ ~web.popupClosed /\ ~web.authenticated
    /\ web' = [web EXCEPT !.authenticated = TRUE]
    /\ UNCHANGED << aggregator, qr, mobile, mp >>

\* the user closes the popup
ClosePopup ==
    /\ web.popupRef /\ ~web.popupClosed
    /\ web' = [web EXCEPT !.popupClosed = TRUE]
    /\ UNCHANGED << aggregator, qr, mobile, mp >>

\* a tick of the 2000 ms polling interval: checkForAuthentication starts
IntervalTick ==
    /\ web.checkIntervalRef
    /\ web.polls < MaxPolls
    /\ web' = [web EXCEPT !.checkIntervalRef = IF web.popupClosed
                                               THEN FALSE ELSE @,
                          !.pollsInFlight = @ + 1,
                          !.polls = @ + 1]
    /\ UNCHANGED << aggregator, qr, mobile, mp >>

\* checkForAuthentication after its fetch; fetched is FALSE when it threw
PollResolves(fetched) ==
    /\ web.pollsInFlight > 0
    /\ web' = IF fetched /\ web.authenticated
              THEN [web EXCEPT !.pollsInFlight = @ - 1,
                               !.checkIntervalRef = FALSE,
                               !.popupClosed = IF web.popupRef THEN TRUE ELSE @,
                               !.status = "success",
                               !.successTimers = @ + 1,
                               !.scheduled = @ + 1]
              ELSE [web EXCEPT !.pollsInFlight = @ - 1]
    /\ UNCHANGED << aggregator, qr, mobile, mp >>

\* switchToManual, offered while waiting
SwitchToManual ==
    /\ web.status = "waiting"
    /\ web' = [web EXCEPT !.checkIntervalRef = FALSE,
                          !.popupClosed = IF web.popupRef THEN TRUE ELSE @,
                          !.status = "manual"]
    /\ UNCHANGED << aggregator, qr, mobile, mp >>

\* handleManualCookie with a non-empty cookie, up to its fetch
HandleManualCookie ==
    /\ web.status = "manual"
    /\ web.submits < MaxSubmits
    /\ web' = [web EXCEPT !.manualInFlight = @ + 1, !.submits = @ + 1]
    /\ UNCHANGED << aggregator, qr, mobile, mp >>

\* handleManualCookie after its fetch; fetched is FALSE when it threw
ManualResolves(fetched) ==
    /\ web.manualInFlight > 0
    /\ web' = IF fetched
              THEN [web EXCEPT !.manualInFlight = @ - 1,
                               !.status = "success",
                               !.successTimers = @ + 1,
                               !.scheduled = @ + 1]
              ELSE [web EXCEPT !.manualInFlight = @ - 1]
    /\ UNCHANGED << aggregator, qr, mobile, mp >>

\* a 500 ms timer fires: onSuccess(sid)
SuccessTimerFires ==
    /\ web.successTimers > 0
    /\ web' = [web EXCEPT !.successTimers = @ - 1, !.onSuccessCalls = @ + 1]
    /\ UNCHANGED << aggregator, qr, mobile, mp >>

NextWeb ==
    \/ \E hasSid \in BOOLEAN : StartAuthFlow(hasSid)
    \/ \E result \in {"popup", "blocked", "failed"} : StartResolves(result)
    \/ \E hasSid \in BOOLEAN : HandleRetry(hasSid)
    \/ Authenticate
    \/ ClosePopup
    \/ IntervalTick
    \/ \E fetched \in BOOLEAN : PollResolves(fetched)
    \/ SwitchToManual
    \/ HandleManualCookie
    \/ \E fetched \in BOOLEAN : ManualResolves(fetched)
    \/ SuccessTimerFires

SpecWeb == Init /\ [][NextWeb]_vars

\* --------------------- epitechApi.markPresence (src/services/epitechApi.ts)
\* A string is the sequence of its parts, "@" a part of its own, so that
\* split("@") and the template `${login}@epitech.eu` are computed on it.
Tom == << "tom" >>
Ann == << "ann" >>
TomMail == << "tom", "@", "epitech.eu" >>
AnnMail == << "ann", "@", "epitech.eu" >>
\* an entry without a login field
Undefined == << "undefined" >>

\* s.split("@")[0]
RECURSIVE SplitHead(_)
SplitHead(t) ==
    IF t = << >> \/ Head(t) = "@" THEN << >>
    ELSE << Head(t) >> \o SplitHead(Tail(t))

\* s.login?.split("@")[0]
LoginWithoutDomain(l) == IF l = Undefined THEN Undefined ELSE SplitHead(l)

\* the entries of a registered-student list, and the lists
Students == [login : {Tom, TomMail, Ann, Undefined}, email : {TomMail, AnnMail}]

RegisteredLists ==
    UNION { [1..n -> Students] : n \in 0..MaxRegistered }

\* the arguments of a call and what the intranet client does in it:
\* getLoginFromEmail returns login or throws, getRegisteredStudents returns
\* registered or throws, markStudentPresent returns or throws
PresenceInputs ==
    [studentEmail : {Tom, TomMail, AnnMail},
     event : BOOLEAN,
     login : {Tom, TomMail, Ann},
     loginThrows : BOOLEAN,
     registered : RegisteredLists,
     registeredThrows : BOOLEAN,
     markOutcome : Outcomes]

\* the predicate of registeredStudents.find
StudentMatches(st, login, studentEmail) ==
    \/ st.login = login
    \/ st.login = studentEmail
    \/ st.email = studentEmail
    \/ st.login = login \o << "@", "epitech.eu" >>
    \/ LoginWithoutDomain(st.login) = login

\* registeredStudents.find: the index of the first match, 0 for undefined
FindStudent(list, login, studentEmail) ==
    LET hits == { i \in DOMAIN list :
                    StudentMatches(list[i], login, studentEmail) }
    IN  IF hits = {} THEN 0
        ELSE CHOOSE i \in hits : \A j \in hits : i <= j

\* mutant: the login extracted from the scanned email is passed
ActualLoginExtracted(student, login) == login

\* const actualLogin = student.login
ActualLogin(student, login) == student.login

\* markPresence: whether markStudentPresent was called, with which login,
\* and whether the call of markPresence failed with an error
MarkPresenceResult(in) ==
    LET notCalled == [called |-> FALSE, login |-> << >>, failed |-> TRUE]
        found == FindStudent(in.registered, in.login, in.studentEmail)
    IN  IF in.loginThrows THEN notCalled
        ELSE IF ~in.event THEN notCalled
        ELSE IF in.registeredThrows THEN notCalled
        ELSE IF found = 0 THEN notCalled
        ELSE [called |-> TRUE,
              login |-> ActualLogin(in.registered[found], in.login),
              failed |-> in.markOutcome = "throws"]

MarkPresence(in) ==
    /\ mp' = [done |-> TRUE, input |-> in, result |-> MarkPresenceResult(in)]
    /\ UNCHANGED << aggregator, qr, mobile, web >>

\* one call is followed
NextPresence ==
    /\ ~mp.done
    /\ \E in \in PresenceInputs : MarkPresence(in)

SpecPresence == Init /\ [][NextPresence]_vars

\* ------------------------------------------------------------------ claims
\* A step of the scan callback that got past the gate and the dedup check.
ScanProcessed(data) ==
    /\ ~ScanGateClosed
    /\ ~Suppressed(lastSeenMap, ExtractEmail(data), now)

\* C1: no payload is at once in the Validated Set and in the Pending Set.
C1_ValidatedNeverPending == validatedEmails \cap pendingEmails = {}

C3_NoDoubleSubmission ==
    [][ validateUnrendered => onValidateCalls' = onValidateCalls ]_vars

\* C4: a detection of a payload less than the dedup window after its last
\* processed detection (a first detection at time 0 included) changes neither
\* buffer nor the dedup map; one at or past the window is processed and
\* records its time.
C4_DedupFilter ==
    [][ \A data \in ScanData, b \in BoundsInputs :
          (HandleBarCodeScanned(data, b) /\ ~ScanGateClosed
             /\ ExtractEmail(data) \in DOMAIN lastSeenMap) =>
            LET e == ExtractEmail(data)
            IN  IF now - lastSeenMap[e] < DEDUP_WINDOW_MS
                THEN UNCHANGED << detectionBuffer, pendingBuffer, lastSeenMap >>
                ELSE /\ lastSeenMap'[e] = now
                     /\ detectionBuffer'[e].lastSeen = now ]_vars

C6_StaleOverlaysRemoved ==
    [][ (Flush /\ DOMAIN detectionBuffer = {}) =>
          /\ overlays' \subseteq overlays
          /\ \A o \in overlays' : ~(o.lastSeen < now - OVERLAY_TTL_MS) ]_vars

\* C6 witness: a tick with an empty buffer has just run, the overlay of a
\* payload detected more than a TTL ago is gone.
C6_Witness ==
    /\ overlays = {}
    /\ DOMAIN detectionBuffer = {}
    /\ flushDue = now + FLUSH_INTERVAL_MS
    /\ \E e \in DOMAIN lastSeenMap : lastSeenMap[e] < now - OVERLAY_TTL_MS

\* The log holds three detections of e, at t0, t0 + 100 and t0 + 250, with
\* pairwise distinct bounds.
TraceDetections(e, t0) ==
    /\ Len(scanLog) = 3
    /\ \A i \in 1..3 : scanLog[i].email = e
    /\ scanLog[1].t = t0 /\ scanLog[2].t = t0 + 100 /\ scanLog[3].t = t0 + 250
    /\ \A i, j \in 1..3 : i # j => scanLog[i].bounds # scanLog[j].bounds

\* the first tick of the flush interval has run
Flushed == flushDue > FLUSH_INTERVAL_MS

OverlayBounds(e) == { o.bounds : o \in { x \in overlays : x.id = e } }

\* C7 (as stated): after detections of one payload at 0, 100 and 250 ms and
\* the next flush, the overlay carries the bounds of the 250 ms detection.
C7_LastDetectionWins ==
    \A e \in Emails :
        (TraceDetections(e, 0) /\ Flushed) =>
            OverlayBounds(e) = { scanLog[3].bounds }

\* the detection of the logged three whose bounds the dedup filter lets
\* through last: the first, or the second when the first is stamped 0
LastProcessed(t0) == IF t0 = 0 THEN 2 ELSE 1

\* C7 (amended): after detections of one payload at t0, t0 + 100 and
\* t0 + 250 ms the payload is in the pending buffer, the detection at
\* t0 + 250 is suppressed, and the buffer entry, then after the next flush
\* the overlay, carries the bounds of the last detection the dedup filter
\* let through, not those of the suppressed one.
C7_LastProcessedWins ==
    \A e \in Emails, t0 \in {0, 150} :
        TraceDetections(e, t0) =>
            LET k == LastProcessed(t0)
            IN  IF Flushed
                THEN /\ OverlayBounds(e) = { scanLog[k].bounds }
                     /\ e \in pendingEmails \cup validatedEmails \cup DOMAIN cleared
                ELSE /\ pendingBuffer = {e}
                     /\ detectionBuffer[e].bounds = scanLog[k].bounds
                     /\ detectionBuffer[e].lastSeen = scanLog[k].t
                     /\ lastSeenMap[e] = scanLog[k].t

\* C7 witness: the three detections from a non-zero clock reading, flushed.
C7_Witness ==
    \E e \in Emails :
        /\ TraceDetections(e, 150)
        /\ Flushed
        /\ OverlayBounds(e) = { scanLog[1].bounds }

\* C8: Clear empties the Pending Set and changes nothing else; it does not
\* call the submission collaborator.
C8_ClearFrame ==
    [][ HandleClearPending =>
          /\ pendingEmails' = {}
          /\ UNCHANGED << validatedEmails, lastSeenMap, detectionBuffer,
                          pendingBuffer, overlays, onValidateCalls >> ]_vars

\* C8 witness: a Clear, not yet rendered, has emptied the Pending Set while
\* overlays, dedup entries and a pending-buffer entry are in place.
C8_Witness ==
    /\ DOMAIN cleared # {}
    /\ DOMAIN cleared = scanStateRef.pendingEmails
    /\ pendingEmails = {}
    /\ ~validateUnrendered
    /\ onValidateCalls = << >>
    /\ overlays # {}
    /\ pendingBuffer # {}
    /\ DOMAIN lastSeenMap = Emails

C10_ValidatedMonotone ==
    [][ /\ validatedEmails \subseteq validatedEmails'
        /\ validatedEmails' # validatedEmails => HandleValidate ]_vars

\* C10 witness: the Validated Set grew twice, with renders in between.
C10_Witness ==
    /\ Len(onValidateCalls) = 2
    /\ validatedEmails = Emails
    /\ scanStateRef.validatedEmails = Emails
    /\ Range(onValidateCalls[1]) \cap Range(onValidateCalls[2]) = {}

Detected(o) == [id |-> o.id, bounds |-> o.bounds, lastSeen |-> o.lastSeen]

\* C12: the scan callback, whether it processes or suppresses the detection,
\* leaves overlays, Pending Set and Validated Set unchanged; a payload enters
\* the Pending Set, and detection data enters the overlays, only in a flush
\* tick.
C12_ScanWritesNoState ==
    [][ /\ \A data \in ScanData, b \in BoundsInputs :
              HandleBarCodeScanned(data, b) =>
                UNCHANGED << overlays, pendingEmails, validatedEmails >>
        /\ ~(pendingEmails' \subseteq pendingEmails) => Flush
        /\ ~({ Detected(o) : o \in overlays' }
                \subseteq { Detected(o) : o \in overlays }) => Flush ]_vars

\* C12 witness: two payloads were detected and buffered, no tick has run and
\* the Aggregator State is still empty.
C12_Witness ==
    /\ nScans = 2
    /\ DOMAIN detectionBuffer = Emails
    /\ pendingBuffer = Emails
    /\ overlays = {}
    /\ pendingEmails = {}
    /\ validatedEmails = {}

\* C13: at the end of every flush tick both buffers are empty, every payload
\* the Pending Buffer held is in the Pending Set, and every entry the
\* Detection Buffer held is the one overlay stored for its payload.
C13_FlushPropagates ==
    [][ Flush =>
          /\ DOMAIN detectionBuffer' = {}
          /\ pendingBuffer' = {}
          /\ pendingBuffer \subseteq pendingEmails'
          /\ \A k \in DOMAIN detectionBuffer :
                { o \in overlays' : o.id = k } = { detectionBuffer[k] } ]_vars

\* C13 witness: a tick has just moved two buffered detections into the
\* overlays and the Pending Set; the render has not followed yet.
C13_Witness ==
    /\ flushDue = now + FLUSH_INTERVAL_MS
    /\ DOMAIN detectionBuffer = {}
    /\ pendingBuffer = {}
    /\ pendingEmails = Emails
    /\ { o.id : o \in overlays } = Emails
    /\ \A o \in overlays : o.lastSeen = lastSeenMap[o.id]
    /\ scanStateRef.pendingEmails = {}

\* no overlay and no prunable dedup entry has passed the TTL at this clock
\* reading
NoExpiryDue ==
    /\ \A o \in overlays : o.lastSeen > now - OVERLAY_TTL_MS
    /\ Cardinality(DOMAIN lastSeenMap) > DEDUP_MAP_CEILING =>
          \A k \in DOMAIN lastSeenMap :
              lastSeenMap[k] >= now - OVERLAY_TTL_MS

\* C14: a flush tick that follows a tick which found both buffers empty,
\* with no detection, trigger or expiry becoming due in between, changes
\* nothing in overlays, Pending Set, Validated Set, buffers and Dedup
\* Timestamp Map.
C14_FlushIdempotent ==
    [][ (Flush /\ quietTicks >= 1 /\ NoExpiryDue) =>
          /\ DOMAIN detectionBuffer = {} /\ pendingBuffer = {}
          /\ UNCHANGED << overlays, pendingEmails, validatedEmails,
                          detectionBuffer, pendingBuffer,
                          lastSeenMap >> ]_vars

\* C14 witness: two ticks in a row found the buffers empty while an overlay,
\* a pending payload and a dedup entry were in place.
C14_Witness ==
    /\ quietTicks = 2
    /\ flushDue = now + FLUSH_INTERVAL_MS
    /\ overlays # {}
    /\ pendingEmails # {}
    /\ DOMAIN lastSeenMap # {}

\* C15: while isActive is false no flush tick runs: no overlay expiry, no
\* buffer merge and no dedup pruning happens.
C15_NoFlushWhileInactive ==
    [][ ~isActive =>
          /\ ~Flush
          /\ UNCHANGED << overlays, pendingEmails, detectionBuffer,
                          pendingBuffer, lastSeenMap >> ]_vars

\* C16: whether onValidate returns or throws, the payloads handed to it stay
\* in the Validated Set and out of the Pending Set, and onValidate is called
\* again only by a further Validate trigger, never by the aggregator itself.
C16_NoRollback ==
    [][ /\ \A i \in DOMAIN onValidateCalls' :
              /\ Range(onValidateCalls'[i]) \subseteq validatedEmails'
              /\ Range(onValidateCalls'[i]) \cap pendingEmails' = {}
        /\ onValidateCalls' # onValidateCalls =>
              \E outcome \in Outcomes : CallHandleValidate(outcome) ]_vars

\* the payload C17 names for a decoded string
ClaimedPayload(data) ==
    CASE data.json /\ data.email # "" -> data.email
      [] data.json /\ data.email = "" /\ data.Email # "" -> data.Email
      [] OTHER -> data.raw

\* C17: for every decoded string the scan callback runs to its end and, when
\* it gets past the gate and the dedup check, records the detection under
\* the email field if non-empty, else the Email field if non-empty, else
\* the raw string (also when the string does not parse).
C17_PayloadExtraction ==
    [][ \A data \in ExtractData, b \in BoundsInputs :
          LET p == ClaimedPayload(data)
          IN  ( /\ HandleBarCodeScanned(data, b)
                /\ ~ScanGateClosed
                /\ ~Suppressed(lastSeenMap, p, now) ) =>
                  /\ DOMAIN lastSeenMap' = DOMAIN lastSeenMap \cup {p}
                  /\ lastSeenMap'[p] = now
                  /\ DOMAIN detectionBuffer' = DOMAIN detectionBuffer \cup {p}
                  /\ detectionBuffer'[p].id = p
                  /\ detectionBuffer'[p].text = p
                  /\ detectionBuffer'[p].lastSeen = now ]_vars

\* C17 witness: one detection was recorded under its Email field, another
\* under its raw text.
C17_Witness ==
    /\ nScans = 2
    /\ DOMAIN lastSeenMap = {"b@x.eu", "zz"}
    /\ DOMAIN detectionBuffer = {"b@x.eu", "zz"}

\* C18: a processed detection overwrites the Detection Buffer entry of its
\* payload, and only that entry, with its own bounds and time; a suppressed
\* one leaves the buffer as it is; a flush tick makes each entry the one
\* overlay of its payload, in place of any older overlay of that payload.
C18_LastWriteWins ==
    [][ /\ \A data \in ScanData, b \in BoundsInputs :
              HandleBarCodeScanned(data, b) =>
                LET e == ExtractEmail(data)
                IN  IF ScanProcessed(data)
                    THEN /\ DOMAIN detectionBuffer' =
                               DOMAIN detectionBuffer \cup {e}
                         /\ detectionBuffer'[e].id = e
                         /\ detectionBuffer'[e].lastSeen = now
                         /\ detectionBuffer'[e].bounds =
                               [x |-> b.x, y |-> b.y,
                                width |-> b.width, height |-> b.height]
                         /\ \A k \in DOMAIN detectionBuffer \ {e} :
                               detectionBuffer'[k] = detectionBuffer[k]
                    ELSE detectionBuffer' = detectionBuffer
        /\ Flush =>
              \A k \in DOMAIN detectionBuffer :
                  { o \in overlays' : o.id = k } = { detectionBuffer[k] }
        /\ \A o1, o2 \in overlays' : o1.id = o2.id => o1 = o2 ]_vars

\* C18 witness: a payload was detected, flushed, cleared, detected a second
\* time and flushed again; its one overlay is the second detection.
C18_Witness ==
    \E e \in DOMAIN cleared :
        /\ cleared[e]
        /\ nScans = 2
        /\ e \in pendingEmails
        /\ DOMAIN detectionBuffer = {}
        /\ Cardinality(overlays) = 1
        /\ \A o \in overlays :
              /\ o.id = e
              /\ o.lastSeen = lastSeenMap[e]
              /\ o.lastSeen >= FLUSH_INTERVAL_MS

\* C19: after a flush tick that merges a non-empty Detection Buffer, every
\* overlay, kept or just merged, has lastSeen later than now - TTL.
C19_MergedOverlaysFresh ==
    [][ (Flush /\ DOMAIN detectionBuffer # {}) =>
          \A o \in overlays' : o.lastSeen > now - OVERLAY_TTL_MS ]_vars

\* C20: an overlay that is processed for a validated payload is followed, as
\* long as the payload has an overlay, by processed overlays only.
C20_ProcessedStays ==
    [][ \A o \in overlays, o2 \in overlays' :
          (o.id \in validatedEmails /\ o.processed /\ o2.id = o.id) =>
            o2.processed ]_vars


\* C24: the lists handed to onValidate are pairwise disjoint: over any run of
\* detections, flush ticks, Clear and Validate no payload is submitted in two
\* of them.
C24_ListsDisjoint ==
    \A i, j \in DOMAIN onValidateCalls :
        i # j =>
            Range(onValidateCalls[i]) \cap Range(onValidateCalls[j]) = {}

\* C25: in every reachable state the pending buffer holds no payload of the
\* pending set and none of the validated set.
C25_BufferDisjoint ==
    pendingBuffer \cap (pendingEmails \cup validatedEmails) = {}

\* C26: after every invocation of handleValidate that passed its guard,
\* whether onValidate returned or threw, isValidating is false again.
C26_ValidatingReset ==
    [][\A outcome \in Outcomes :
          (ValidateGuard /\ CallHandleValidate(outcome)) => ~isValidating']_vars


\* C27: a decoded-code event delivered while the component is inactive, or
\* while the isValidating flag the callback reads is set, changes neither
\* buffer nor the dedup timestamp map.
C27_GateClosedNoEffect ==
    [][(nScans' # nScans /\ (~isActive \/ scanStateRef.isValidating))
          => UNCHANGED << detectionBuffer, pendingBuffer, lastSeenMap >>]_vars

\* a validation is set and the second event delivered left no dedup entry
C27_Witness ==
    /\ scanStateRef.isValidating
    /\ Len(scanLog) = 2
    /\ scanLog[1].email \in DOMAIN lastSeenMap
    /\ scanLog[2].email \notin DOMAIN lastSeenMap


\* C21: a flush tick leaves the dedup timestamp map as it is while the map
\* holds at most 50 entries; with more than 50 it removes exactly the entries
\* whose timestamp is earlier than the tick time less the overlay TTL.
C21_PruneAboveCeiling ==
    [][flushDue' # flushDue =>
          lastSeenMap' =
             IF Cardinality(DOMAIN lastSeenMap) > 50
             THEN [ e \in { x \in DOMAIN lastSeenMap :
                             lastSeenMap[x] >= now - OVERLAY_TTL_MS }
                      |-> lastSeenMap[e] ]
             ELSE lastSeenMap]_vars

\* a tick found more than 50 entries, removed the old ones and kept a recent
\* one
C21_Witness ==
    /\ Cardinality(DOMAIN unprunedMap) > 50
    /\ DOMAIN lastSeenMap # {}
    /\ DOMAIN lastSeenMap \subseteq Emails

\* C28: pruning never changes a dedup decision: at every time, for every
\* payload, the pruned map suppresses a detection exactly when the map that
\* was never pruned does.
C28_PruneKeepsDecisions ==
    \A e \in Emails \cup Fillers :
        Suppressed(lastSeenMap, e, now) <=> Suppressed(unprunedMap, e, now)

\* entries have been pruned and a detection delivered now would be suppressed
C28_Witness ==
    /\ DOMAIN lastSeenMap # DOMAIN unprunedMap
    /\ \E e \in Emails : Suppressed(lastSeenMap, e, now)


\* C29: an onScan delivery that follows another one comes only after the
\* reset timer started by that other delivery has fired, or after isActive
\* went from false to true since it.
C29_Lockout ==
    [][qr.onScanCount' # qr.onScanCount =>
          \/ qr.onScanCount = 0
          \/ qr.onScanCount \in qr.fired
          \/ qr.reactivated]_vars


\* C23: in MobileAuthComponent onSuccess is invoked at most once, whatever
\* the order of WebView messages, navigation-state changes, timers and native
\* cookie extractions.
C23_OnSuccessOnce == Len(mobile.onSuccessCalls) <= 1


\* C30: in WebAuthComponent onSuccess is scheduled at most once within a
\* flow, also with several polls in flight and with a manual submission
\* overlapping a poll.
C30_ScheduledOnce == web.scheduled <= 1


\* the scanned student matches an entry: the entry's login is the extracted
\* login, with or without @epitech.eu, or the scanned email, or the entry's
\* email is the scanned email
ScannedMatches(st, in) ==
    \/ st.login \in { in.login, in.studentEmail,
                      in.login \o << "@", "epitech.eu" >> }
    \/ st.login # Undefined /\ SplitHead(st.login) = in.login
    \/ st.email = in.studentEmail

\* C22: markPresence calls markStudentPresent only with an event supplied and
\* an entry of the registered list matching the scanned student, and passes
\* the login of a matching entry as it stands there; with no event or no
\* matching entry it fails and markStudentPresent is not called.
C22_MarkOnlyRegistered ==
    mp.done =>
        LET in == mp.input
            matching == { i \in DOMAIN in.registered :
                            ScannedMatches(in.registered[i], in) }
        IN  /\ mp.result.called =>
                 /\ in.event
                 /\ \E i \in matching :
                       mp.result.login = in.registered[i].login
            /\ (~in.event \/ matching = {}) =>
                 mp.result.failed /\ ~mp.result.called

\* the call went through with the entry's login, which is not the login
\* extracted from the scanned email
C22_Witness ==
    /\ mp.done
    /\ mp.result.called
    /\ ~mp.result.failed
    /\ mp.result.login # mp.input.login

==============================================================================
